---- MODULE Spec2Model ----
(***************************************************************************)
(* EHEIM Digital integration: REST client (api_client.py), config flow     *)
(* (config_flow.py), polling coordinator (coordinator.py) and switch       *)
(* entities (switch.py), as one state machine.                             *)
(*                                                                         *)
(* JSON documents are tagged records [k, v]:                               *)
(*   k = "null" (None), "num", "str", "arr", "obj", "text" (undecoded      *)
(*   body).  A response body is a sequence of lexemes; json_loads parses   *)
(*   it the way json.loads does for this lexeme grammar.                   *)
(***************************************************************************)
EXTENDS Integers, Sequences, FiniteSets, Bags, TLC

(* ------------------------------------------------------------------ *)
(* Bounds                                                             *)
(* ------------------------------------------------------------------ *)

\* Longest clientIPList the hub returns.
MaxDevices == 2

\* Poll cycles the scheduler starts after the first refresh.
MaxCycles == 1

\* Switch commands the user issues.
MaxCommands == 2

(* ------------------------------------------------------------------ *)
(* Program constants                                                  *)
(* ------------------------------------------------------------------ *)

\* api_client.py: DEFAULT_TIMEOUT, the session's total-request timeout.
DEFAULT_TIMEOUT == 2

(* ------------------------------------------------------------------ *)
(* JSON values and json.loads                                         *)
(* ------------------------------------------------------------------ *)

JNull == [k |-> "null", v |-> 0]

JNum(n) == [k |-> "num", v |-> n]

JStr(s) == [k |-> "str", v |-> s]

JArr(seq) == [k |-> "arr", v |-> seq]

JObj(f) == [k |-> "obj", v |-> f]

JText(toks) == [k |-> "text", v |-> toks]

\* The empty mapping {}.
EmptyMap == [x \in {} |-> JNull]

\* dict[key] = val
Put(f, key, val) == [x \in (DOMAIN f) \cup {key} |-> IF x = key THEN val ELSE f[x]]

Punct == {"{", "}", "[", "]", ":", ","}

NumLexemes == {"0", "1"}

NumValue(t) == IF t = "0" THEN 0 ELSE 1

IsStrLexeme(t) == t \notin Punct /\ t \notin NumLexemes /\ t # "null"

ParseFail == [ok |-> FALSE, val |-> JNull, next |-> 0]

ParseOk(val, next) == [ok |-> TRUE, val |-> val, next |-> next]

RECURSIVE ParseValue(_, _)
RECURSIVE ParseElems(_, _, _)
RECURSIVE ParseMembers(_, _, _)

\* One JSON value starting at lexeme i.
ParseValue(toks, i) ==
    IF i > Len(toks) THEN ParseFail
    ELSE LET t == toks[i] IN
         CASE t = "{" ->
                IF i + 1 <= Len(toks) /\ toks[i + 1] = "}"
                    THEN ParseOk(JObj(EmptyMap), i + 2)
                    ELSE ParseMembers(toks, i + 1, EmptyMap)
           [] t = "[" ->
                IF i + 1 <= Len(toks) /\ toks[i + 1] = "]"
                    THEN ParseOk(JArr(<<>>), i + 2)
                    ELSE ParseElems(toks, i + 1, <<>>)
           [] t \in NumLexemes -> ParseOk(JNum(NumValue(t)), i + 1)
           [] t = "null" -> ParseOk(JNull, i + 1)
           [] t \in Punct \ {"{", "["} -> ParseFail
           [] OTHER -> ParseOk(JStr(t), i + 1)

\* The elements of an array, after "[" or ",", up to and including "]".
ParseElems(toks, i, acc) ==
    LET r == ParseValue(toks, i) IN
    IF ~r.ok \/ r.next > Len(toks) THEN ParseFail
    ELSE IF toks[r.next] = "," THEN ParseElems(toks, r.next + 1, Append(acc, r.val))
    ELSE IF toks[r.next] = "]" THEN ParseOk(JArr(Append(acc, r.val)), r.next + 1)
    ELSE ParseFail

\* The members of an object, after "{" or ",", up to and including "}".
\* A repeated key keeps its last value, as a Python dict does.
ParseMembers(toks, i, acc) ==
    IF i + 1 > Len(toks) \/ ~IsStrLexeme(toks[i]) \/ toks[i + 1] # ":" THEN ParseFail
    ELSE LET r == ParseValue(toks, i + 2) IN
         IF ~r.ok \/ r.next > Len(toks) THEN ParseFail
         ELSE IF toks[r.next] = ","
                  THEN ParseMembers(toks, r.next + 1, Put(acc, toks[i], r.val))
         ELSE IF toks[r.next] = "}"
                  THEN ParseOk(JObj(Put(acc, toks[i], r.val)), r.next + 1)
         ELSE ParseFail

\* json.loads(text): the document, or JSONDecodeError when the text is not
\* exactly one JSON value.
json_loads(toks) ==
    LET r == ParseValue(toks, 1) IN
    IF r.ok /\ r.next = Len(toks) + 1
        THEN [exc |-> "none", val |-> r.val]
        ELSE [exc |-> "JSONDecodeError", val |-> JNull]

\* dict.get(key): the value, or None when the key is missing.
DictGet(doc, key) == IF key \in DOMAIN doc.v THEN doc.v[key] ELSE JNull

\* bool(x) of a decoded value.
Truthy(x) ==
    CASE x.k = "null" -> FALSE
      [] x.k = "num" -> x.v # 0
      [] x.k = "str" -> x.v # ""
      [] x.k = "arr" -> Len(x.v) > 0
      [] x.k = "obj" -> DOMAIN x.v # {}
      [] x.k = "text" -> Len(x.v) > 0


(* ------------------------------------------------------------------ *)
(* The hub: addresses, devices and the responses it can give          *)
(* ------------------------------------------------------------------ *)

\* The address a user can enter in the setup form: the master of the mesh,
\* which is also the address of a device.
Hosts == {"10.0.0.5"}

\* Addresses the hub lists in clientIPList.
DeviceIPs == {"10.0.0.5", "10.0.0.6", "10.0.0.7", "10.0.0.8"}

\* The mac and the version each address reports in its userdata.
UserdataMac(ip) ==
    CASE ip = "10.0.0.5" -> "AA"
      [] ip = "10.0.0.6" -> "BB"
      [] ip = "10.0.0.7" -> "CC"
      [] OTHER -> "DD"

UserdataVersion(ip) ==
    CASE ip = "10.0.0.5" -> "v1"
      [] ip = "10.0.0.6" -> "v2"
      [] ip = "10.0.0.7" -> "v3"
      [] OTHER -> "v9"

RECURSIVE Lexemes(_)
\* The lexemes of a list of addresses: a, b, c
Lexemes(ips) ==
    IF Len(ips) = 0 THEN <<>>
    ELSE IF Len(ips) = 1 THEN <<ips[1]>>
    ELSE <<ips[1], ",">> \o Lexemes(Tail(ips))

\* {"clientIPList": [ips]}
DevListBody(ips) == <<"{", "clientIPList", ":", "[">> \o Lexemes(ips) \o <<"]", "}">>

\* {"mac": m, "version": v}
UserdataBody(ip) ==
    <<"{", "mac", ":", UserdataMac(ip), ",", "version", ":", UserdataVersion(ip), "}">>

\* {key: bit}
StatusBody(key, bit) == <<"{", key, ":", bit, "}">>

\* A body cut off in the middle: not JSON.
MalformedBody == <<"{", "filterActive", ":">>

\* The place of an address in the mesh: the master first.
MeshRank(ip) ==
    CASE ip = "10.0.0.5" -> 1
      [] ip = "10.0.0.6" -> 2
      [] ip = "10.0.0.7" -> 3
      [] OTHER -> 4

\* The lists the hub can return: every address at most once, in the order of
\* the mesh.
IPLists ==
    {l \in UNION {[1..n -> DeviceIPs] : n \in 0..MaxDevices} :
        \A i, j \in 1..Len(l) : i < j => MeshRank(l[i]) < MeshRank(l[j])}

JsonTypes == {"application/json", "text/json"}

ContentTypes == JsonTypes \cup {"text/plain", ""}

\* Exceptions session.request can raise.
TransportErrors == {"ClientConnectorError", "ServerTimeoutError", "ConnectionResetError"}

ErrorStatuses == {401, 403, 404, 500}

\* 2xx other than 200, and a 3xx that is not a redirect to follow.
OtherStatuses == {204, 304}

\* A response that arrives within the session's timeout: an exception of the
\* transport, or a status with its Content-Type header and its body.
Response(err, status, ctype, body) ==
    [elapsed |-> DEFAULT_TIMEOUT - 1, err |-> err, status |-> status, ctype |-> ctype,
     body |-> body]

\* The same response arriving after the session's timeout.
Late(resp) == [resp EXCEPT !.elapsed = DEFAULT_TIMEOUT + 1]

FailedResponses ==
    {Response(e, 0, "", <<>>) : e \in TransportErrors}
        \cup {Response("none", s, "", <<>>) : s \in ErrorStatuses}
        \cup {Late(Response("none", 200, "application/json", <<"{", "}">>))}

Ok200(types, bodies) == {Response("none", 200, c, b) : c \in types, b \in bodies}

\* What the entered host can answer to GET devicelist during validation:
\* anything.
FlowResponses ==
    FailedResponses
        \cup {Response("none", s, "", <<>>) : s \in OtherStatuses}
        \cup Ok200(ContentTypes,
                   {DevListBody(<<>>), DevListBody(<<"10.0.0.5">>),
                    <<"{", "}">>, <<>>, MalformedBody})

\* What the master answers to GET devicelist during setup.
DevListResponses ==
    FailedResponses
        \cup Ok200(JsonTypes, {DevListBody(ips) : ips \in IPLists})
        \cup Ok200(JsonTypes, {<<"{", "}">>, MalformedBody})
        \cup Ok200({"text/plain"}, {DevListBody(<<"10.0.0.5">>)})
        \cup {Response("none", 204, "", <<>>)}

\* What a device answers to GET userdata: its record, or a failure.
UserdataResponses(ip) ==
    FailedResponses \cup Ok200(JsonTypes, {UserdataBody(ip), MalformedBody})

\* The state key each status endpoint reports.
StatusKey(endpoint) == IF endpoint = "professionel5e" THEN "filterActive" ELSE "active"

\* The failures of the hub once the entry is set up: the connection is
\* refused, or the hub answers with an error status.
RunFailures ==
    {Response("ClientConnectorError", 0, "", <<>>), Response("none", 500, "", <<>>)}

\* What the master answers to a status GET once the devices are known: a
\* key/value document, or a failure.  The filter and the pH control report
\* either bit; the heater of this hub, which has no switch, always reports
\* the same document.
StatusResponses(endpoint) ==
    RunFailures
        \cup Ok200({"application/json"},
                   {StatusBody(StatusKey(endpoint), b) :
                        b \in IF endpoint = "heater" THEN {"1"} ELSE NumLexemes})

\* What the master answers to a command POST: a failure, no content, a JSON
\* document or a malformed one.
CommandResponses ==
    RunFailures
        \cup {Response("none", 204, "", <<>>)}
        \cup Ok200({"application/json"}, {<<"{", "}">>, MalformedBody})

(* ------------------------------------------------------------------ *)
(* api_client.py: errors and _send_request                            *)
(* ------------------------------------------------------------------ *)

\* EheimDigitalError and its subclasses.
DomainErrors ==
    {"EheimDigitalError", "EheimDigitalConnectionError", "EheimDigitalConnectionTimeout",
     "EheimDigitalAuthError", "EheimDigitalNotFound"}

\* The classes of the except clauses that an exception is an instance of.
ExcClasses(e) ==
    CASE e \in {"ClientResponseError", "ClientConnectorError"} -> {"ClientError"}
      [] e = "ServerTimeoutError" -> {"ClientError", "TimeoutError"}
      [] e = "ConnectionResetError" -> {"ConnectionError"}
      [] e = "TimeoutError" -> {"TimeoutError"}
      [] OTHER -> {}

Raise(e) == [exc |-> e, val |-> JNull]

Return(val) == [exc |-> "none", val |-> val]

\* response.raise_for_status(): ClientResponseError for a status of 400 or more.
raise_for_status(status) == IF status >= 400 THEN "ClientResponseError" ELSE "none"

\* await response.json(): None for an empty body, else json.loads.
response_json(body) == IF body = <<>> THEN Return(JNull) ELSE json_loads(body)

\* Mutant of Decode: no workaround for text/json.
DecodeNoWorkaround(ctype, body) ==
    IF ctype = "application/json" THEN response_json(body) ELSE Return(JText(body))

\* The decoding of a 200 response by its Content-Type header.
Decode(ctype, body) ==
    IF ctype = "text/json" THEN json_loads(body)
    ELSE IF ctype = "application/json" THEN response_json(body)
    ELSE Return(JText(body))

\* The session of __init__, ClientTimeout(total=DEFAULT_TIMEOUT): a request
\* that takes longer raises TimeoutError.
SessionTimesOut(resp) == resp.elapsed > DEFAULT_TIMEOUT

\* The body of the try block: the request, the status checks, the decoding.
TryBlock(resp) ==
    IF SessionTimesOut(resp) THEN Raise("TimeoutError")
    ELSE IF resp.err # "none" THEN Raise(resp.err)
    ELSE IF raise_for_status(resp.status) # "none" THEN Raise(raise_for_status(resp.status))
    ELSE IF resp.status = 404 THEN Raise("EheimDigitalNotFound")
    ELSE IF resp.status \in {401, 403} THEN Raise("EheimDigitalAuthError")
    ELSE IF resp.status = 200 THEN Decode(resp.ctype, resp.body)
    ELSE Return(JNull)

\* Mutant of ExceptClauses: the two outcomes exchanged.
ExceptClausesSwapped(r) ==
    IF "TimeoutError" \in ExcClasses(r.exc) \/ "ConnectionError" \in ExcClasses(r.exc)
        THEN Raise("EheimDigitalConnectionError")
    ELSE IF "ClientError" \in ExcClasses(r.exc) THEN Raise("EheimDigitalConnectionTimeout")
    ELSE r

\* The except clauses, in the order the code lists them.
ExceptClauses(r) ==
    IF "ClientError" \in ExcClasses(r.exc) THEN Raise("EheimDigitalConnectionError")
    ELSE IF "ConnectionError" \in ExcClasses(r.exc) THEN Raise("EheimDigitalConnectionError")
    ELSE IF "TimeoutError" \in ExcClasses(r.exc) THEN Raise("EheimDigitalConnectionTimeout")
    ELSE r

\* _send_request: what the call returns or raises, given the hub's response.
send_request(resp) == ExceptClauses(TryBlock(resp))

\* The request get() and post() hand to the session.
Request(method, host, endpoint, data, params) ==
    [method |-> method, url |-> <<"http://", host, "/api/", endpoint>>,
     json |-> data, params |-> params]

get(host, endpoint, params) == Request("GET", host, endpoint, JNull, params)

post(host, endpoint, data) == Request("POST", host, endpoint, data, JNull)


(* ------------------------------------------------------------------ *)
(* const.py and devices.py: the tables and the device record          *)
(* ------------------------------------------------------------------ *)

\* DEVICE_ENDPOINTS: the status endpoint of each known version.
DEVICE_ENDPOINTS ==
    [ver \in {"v1", "v2", "v3"} |->
        CASE ver = "v1" -> "professionel5e"
          [] ver = "v2" -> "phcontrol"
          [] OTHER -> "heater"]

\* The capability group of a version.
DeviceGroup(version) ==
    CASE version = "v1" -> "filter"
      [] version = "v2" -> "ph_control"
      [] version = "v3" -> "heater"
      [] OTHER -> "other"

StrOr(x, default) == IF x.k = "str" THEN x.v ELSE default

\* EheimDevice(response, ip): the fields of the payload by fixed key, a
\* missing one defaulted, and the address the caller gives.
EheimDevice(response, ip) ==
    LET version == StrOr(DictGet(response, "version"), "") IN
    [mac |-> StrOr(DictGet(response, "mac"), ""),
     ip |-> ip,
     version |-> version,
     device_group |-> DeviceGroup(version)]

(* ------------------------------------------------------------------ *)
(* api_client.py: the high-level operations                           *)
(* ------------------------------------------------------------------ *)

\* The body of a command: {"to": mac, "active": 1 if state else 0}.
ActiveBody(device, state) ==
    JObj(Put(Put(EmptyMap, "to", JStr(device.mac)), "active", JNum(IF state THEN 1 ELSE 0)))

\* set_phcontrol_state: the POST it issues.
set_phcontrol_state(master_host_ip, device, state) ==
    post(master_host_ip, "phcontrol/active", ActiveBody(device, state))

\* Mutant of set_filter_state: the endpoint of the other command.
set_filter_state_OtherEndpoint(master_host_ip, device, state) ==
    post(master_host_ip, "phcontrol/active", ActiveBody(device, state))

\* set_filter_state: the POST it issues.
set_filter_state(master_host_ip, device, state) ==
    post(master_host_ip, "professionel5e/active", ActiveBody(device, state))

\* Mutant of get_device_data: the request goes to the device's own address.
get_device_data_ToDevice(master_host_ip, device) ==
    IF device.version \notin DOMAIN DEVICE_ENDPOINTS
        THEN [exc |-> "KeyError", req |-> JNull]
        ELSE [exc |-> "none",
              req |-> get(device.ip, DEVICE_ENDPOINTS[device.version], JNull)]

get_device_data(master_host_ip, device) ==
    IF device.version \notin DOMAIN DEVICE_ENDPOINTS
        THEN [exc |-> "KeyError", req |-> JNull]
        ELSE [exc |-> "none",
              req |-> get(master_host_ip, DEVICE_ENDPOINTS[device.version],
                          JObj(Put(EmptyMap, "to", JStr(device.mac))))]

\* device_list["clientIPList"]: the addresses, or the error of the subscript.
ClientIPList(device_list) ==
    IF device_list.k # "obj" THEN [exc |-> "TypeError", ips |-> <<>>]
    ELSE IF "clientIPList" \notin DOMAIN device_list.v THEN [exc |-> "KeyError", ips |-> <<>>]
    ELSE LET arr == device_list.v["clientIPList"].v IN
         [exc |-> "none", ips |-> [i \in 1..Len(arr) |-> arr[i].v]]

(* ------------------------------------------------------------------ *)
(* switch.py: the tables                                              *)
(* ------------------------------------------------------------------ *)

SWITCH_DESCRIPTIONS ==
    << [key |-> "filter_is_active", state_key |-> "filterActive",
        set_state_fn |-> "set_filter_state"],
       [key |-> "ph_control_is_active", state_key |-> "active",
        set_state_fn |-> "set_phcontrol_state"] >>

\* Mutant of SWITCH_SENSOR_GROUPS: every group gets every switch.
SWITCH_SENSOR_GROUPS_Any(device_group) == {"ph_control_is_active", "filter_is_active"}

\* SWITCH_SENSOR_GROUPS.get(device_group, [])
SWITCH_SENSOR_GROUPS(device_group) ==
    CASE device_group = "ph_control" -> {"ph_control_is_active"}
      [] device_group = "filter" -> {"filter_is_active"}
      [] OTHER -> {}

\* What set_phcontrol_state / set_filter_state give their caller, r being
\* what post() returned or raised: the document is dropped, an error passes.
set_state_outcome(r) == IF r.exc = "none" THEN Return(JNull) ELSE r

\* entity_description.set_state_fn(device, coordinator, state)
set_state_fn(description, master_host_ip, device, state) ==
    IF description.set_state_fn = "set_filter_state"
        THEN set_filter_state(master_host_ip, device, state)
        ELSE set_phcontrol_state(master_host_ip, device, state)


(* ------------------------------------------------------------------ *)
(* State                                                              *)
(* ------------------------------------------------------------------ *)

VARIABLES
    phase,                \* "flow", "setup", "refresh", "platform", "adding", "run",
                          \* "failed"
    flow,                 \* the config flow: the last step's input and outcome
    master,               \* the client's _master_host_ip
    fd,                   \* fetch_devices: its position, locals and outcome
    devices,              \* coordinator.devices
    data,                 \* coordinator.data: mac -> reference to a payload
    heap,                 \* the payload objects, by reference
    last_update_success,  \* coordinator.last_update_success
    cyc,                  \* _async_update_data: its position, locals and outcome
    ents,                 \* the switch entities, in creation order
    cmd,                  \* async_turn_on / async_turn_off: the bag of calls in
                          \* flight, the number of calls made, and how the call
                          \* that ended last ended
    io                    \* the last call of the client made on its own

vars ==
    <<phase, flow, master, fd, devices, data, heap, last_update_success, cyc, ents, cmd, io>>

\* user_input of the first display of the form.
NoInput == "None"

\* The flow handler before its first step.
NewFlow ==
    [pc |-> "idle", user_input |-> NoInput, result |-> "none", errors |-> "none",
     exc |-> "none", session |-> "none", devices |-> JNull, sent |-> <<>>]

\* The state before anything ran, but for the phase.
InitRest ==
    /\ flow = NewFlow
    /\ master = ""
    /\ fd = [pc |-> "idle", ips |-> <<>>, i |-> 0, devices |-> <<>>, exc |-> "none",
             sent |-> <<>>]
    /\ devices = <<>>
    /\ data = EmptyMap
    /\ heap = EmptyMap
    /\ last_update_success = TRUE
    /\ cyc = [pc |-> "idle", n |-> 0, k |-> 0, all_device_data |-> EmptyMap,
              result |-> "none", cause |-> "none", marked |-> FALSE, sent |-> <<>>]
    /\ ents = <<>>
    /\ cmd = [n |-> 0, calls |-> EmptyBag, op |-> "none", ent |-> 0, during |-> 0,
              raised |-> "none", exc |-> "none", wrote |-> FALSE, sent |-> <<>>]
    /\ io = [op |-> "none"]

Init == phase = "flow" /\ InitRest

(* ------------------------------------------------------------------ *)
(* config_flow.py                                                     *)
(* ------------------------------------------------------------------ *)

\* _test_host_connection after its GET: r is what get() returned or raised.
\* An error of the GET and "No devices find on host" leave the method at
\* once; only a non-empty document reaches the await of close().
test_host_connection(r) ==
    IF r.exc # "none" THEN [exc |-> r.exc, devices |-> JNull]
    ELSE IF ~Truthy(r.val) THEN [exc |-> "EheimDigitalError", devices |-> r.val]
    ELSE [exc |-> "none", devices |-> r.val]

\* async_step_user(user_input): the form for no input; else up to the first
\* await of _test_host_connection, its client made (session open) and GET
\* devicelist sent to the entered host.
async_step_user(user_input) ==
    /\ phase = "flow"
    /\ flow.pc = "idle"
    /\ flow.result # "create_entry"
    /\ IF user_input = NoInput
           THEN flow' = [NewFlow EXCEPT !.result = "show_form"]
           ELSE flow' = [NewFlow EXCEPT !.pc = "validating", !.user_input = user_input,
                                        !.session = "open",
                                        !.sent = <<get(user_input, "devicelist", JNull)>>]
    /\ UNCHANGED <<phase, master, fd, devices, data, heap, last_update_success, cyc, ents, cmd, io>>

\* The step resumes with the answer to GET devicelist: an error ends it (the
\* form again for a domain error, the exception for any other) with the
\* session as it is; a non-empty document goes on to await close().
async_step_user_resume(resp) ==
    /\ phase = "flow"
    /\ flow.pc = "validating"
    /\ LET t == test_host_connection(send_request(resp)) IN
       flow' = IF t.exc = "none"
                   THEN [flow EXCEPT !.pc = "closing", !.devices = t.devices]
                   ELSE [flow EXCEPT !.pc = "idle",
                                     !.result = IF t.exc \in DomainErrors THEN "show_form"
                                                ELSE "raised",
                                     !.errors = IF t.exc \in DomainErrors
                                                    THEN "communication_error" ELSE "none",
                                     !.exc = IF t.exc \in DomainErrors THEN "none" ELSE t.exc,
                                     !.devices = t.devices]
    /\ UNCHANGED <<phase, master, fd, devices, data, heap, last_update_success, cyc, ents, cmd, io>>

\* await api_client.close() returns: the session is closed and the entry is
\* created.
async_step_user_close ==
    /\ phase = "flow"
    /\ flow.pc = "closing"
    /\ flow' = [flow EXCEPT !.pc = "idle", !.session = "closed", !.result = "create_entry"]
    /\ UNCHANGED <<phase, master, fd, devices, data, heap, last_update_success, cyc, ents, cmd, io>>

\* The responses the entered host can give to the validation in flight.
PendingFlowResponses == IF flow.pc = "validating" THEN FlowResponses ELSE {}

(* ------------------------------------------------------------------ *)
(* Setup: the client for the entry's host, and fetch_devices          *)
(* ------------------------------------------------------------------ *)

\* Setup of the entry: a client for the entry's address, and fetch_devices
\* up to its first await, GET devicelist from the master.  The flow handler
\* ended with its entry and is dropped.
fetch_devices ==
    /\ phase = "flow"
    /\ flow.result = "create_entry"
    /\ phase' = "setup"
    /\ master' = flow.user_input
    /\ flow' = NewFlow
    /\ fd' = [fd EXCEPT !.pc = "list", !.sent = <<get(flow.user_input, "devicelist", JNull)>>]
    /\ UNCHANGED <<devices, data, heap, last_update_success, cyc, ents, cmd, io>>

\* The loop of fetch_devices at address number i: return after the last
\* one, else GET userdata from the address.
FetchLoop(f, i) ==
    IF i > Len(f.ips)
        THEN [f EXCEPT !.pc = "returned", !.i = i]
        ELSE [f EXCEPT !.pc = "userdata", !.i = i,
                       !.sent = Append(@, get(f.ips[i], "userdata", JNull))]

\* Mutant of FetchRaise: the failing address is skipped and the loop goes on.
FetchRaiseSkip(f, exc) == FetchLoop(f, f.i + 1)

\* An error leaves fetch_devices: nothing is returned.
FetchRaise(f, exc) == [f EXCEPT !.pc = "raised", !.exc = exc]

\* fetch_devices resumes with the device list.
fetch_devices_list(resp) ==
    /\ phase = "setup"
    /\ fd.pc = "list"
    /\ LET r == send_request(resp) IN
       IF r.exc # "none" THEN fd' = FetchRaise(fd, r.exc)
       ELSE LET l == ClientIPList(r.val) IN
            IF l.exc # "none" THEN fd' = FetchRaise(fd, l.exc)
            ELSE fd' = FetchLoop([fd EXCEPT !.ips = l.ips], 1)
    /\ UNCHANGED <<phase, flow, master, devices, data, heap, last_update_success, cyc, ents, cmd, io>>

\* fetch_devices resumes with the userdata of address number fd.i.
fetch_devices_userdata(resp) ==
    /\ phase = "setup"
    /\ fd.pc = "userdata"
    /\ LET r == send_request(resp) IN
       IF r.exc # "none" THEN fd' = FetchRaise(fd, r.exc)
       ELSE fd' = FetchLoop([fd EXCEPT !.devices =
                                 Append(@, EheimDevice(r.val, fd.ips[fd.i]))],
                            fd.i + 1)
    /\ UNCHANGED <<phase, flow, master, devices, data, heap, last_update_success, cyc, ents, cmd, io>>

\* Setup after fetch_devices: the coordinator gets the devices, or setup fails.
setup_coordinator ==
    /\ phase = "setup"
    /\ fd.pc \in {"returned", "raised"}
    /\ IF fd.pc = "returned"
           THEN devices' = fd.devices /\ phase' = "refresh"
           ELSE devices' = devices /\ phase' = "failed"
    /\ UNCHANGED <<flow, master, fd, data, heap, last_update_success, cyc, ents, cmd, io>>


(* ------------------------------------------------------------------ *)
(* coordinator.py: _async_update_data, run by the refresh of the      *)
(* DataUpdateCoordinator                                              *)
(* ------------------------------------------------------------------ *)

\* _handle_coordinator_update of every entity that listens to the
\* coordinator, given the new coordinator.data; an entity that is not added
\* yet is not called and keeps the payload it holds.
handle_coordinator_update(es, newdata) ==
    [e \in 1..Len(es) |->
        IF es[e].added THEN [es[e] EXCEPT !.switch_data = newdata[es[e].device.mac]]
        ELSE es[e]]

\* The payloads that stay referenced after a publish: those held by
\* entities that do not listen yet.
HeldPayloads(es) == {es[e].switch_data : e \in {x \in 1..Len(es) : ~es[x].added}}

\* Mutant of ExceptEheimDigitalError: the clause catches every exception.
ExceptException(exc) == [result |-> "UpdateFailed", marked |-> TRUE]

\* except EheimDigitalError (lines 52-57): a domain error sets
\* last_update_success = False and is raised again as UpdateFailed; any other
\* exception passes the clause and leaves _async_update_data as it is.
ExceptEheimDigitalError(exc) ==
    IF exc \in DomainErrors THEN [result |-> "UpdateFailed", marked |-> TRUE]
    ELSE [result |-> exc, marked |-> FALSE]

\* Mutant of CycleFail: the entries fetched so far were written into the
\* live snapshot.
CycleFailInPlace(c, result, cause) ==
    /\ cyc' = [c EXCEPT !.pc = "idle", !.result = result, !.cause = cause]
    /\ last_update_success' = FALSE
    /\ phase' = IF phase = "refresh" THEN "failed" ELSE phase
    /\ heap' = [r \in DOMAIN heap |->
                    IF r[2] \in DOMAIN c.all_device_data THEN c.all_device_data[r[2]]
                    ELSE heap[r]]
    /\ ents' = IF last_update_success THEN handle_coordinator_update(ents, data) ELSE ents
    /\ data' = data

\* The cycle ends with an error: last_update_success is cleared (by line 53
\* for a domain error, where c.marked is set, by the refresh of the
\* DataUpdateCoordinator for any other), data is left alone, and
\* all_device_data is dropped with the frame of the call.  The refresh calls
\* the listeners when the refresh before this one had succeeded
\* (last_update_success as it was when the cycle started): every added
\* entity takes its entry of the unchanged coordinator.data again.
CycleFail(c, result, cause) ==
    /\ cyc' = [c EXCEPT !.pc = "idle", !.result = result, !.cause = cause,
                        !.all_device_data = EmptyMap]
    /\ last_update_success' = FALSE
    /\ phase' = IF phase = "refresh" THEN "failed" ELSE phase
    /\ ents' = IF last_update_success THEN handle_coordinator_update(ents, data) ELSE ents
    /\ UNCHANGED <<data, heap>>

\* Mutant of CyclePublish: the fetched entries are written into the payloads
\* of the previous snapshot, which stays the published one.
CyclePublishMerge(c) ==
    LET ref(m) == IF m \in DOMAIN data THEN data[m] ELSE <<c.n, m>>
        newdata == [m \in DOMAIN c.all_device_data |-> ref(m)]
    IN  /\ cyc' = [c EXCEPT !.pc = "idle", !.result = "ok", !.cause = "none"]
        /\ data' = newdata
        /\ heap' = [r \in {ref(m) : m \in DOMAIN c.all_device_data} \cup HeldPayloads(ents) |->
                        IF r \in {ref(m) : m \in DOMAIN c.all_device_data}
                            THEN c.all_device_data[r[2]]
                            ELSE heap[r]]
        /\ ents' = handle_coordinator_update(ents, newdata)
        /\ last_update_success' = TRUE
        /\ phase' = IF phase = "refresh" THEN "platform" ELSE phase

\* The cycle returns all_device_data: the refresh publishes it as
\* coordinator.data and calls the listeners, so every added entity takes its
\* entry.
CyclePublish(c) ==
    LET ref(m) == <<c.n, m>>
        newdata == [m \in DOMAIN c.all_device_data |-> ref(m)]
        fresh == {ref(m) : m \in DOMAIN c.all_device_data}
    IN  /\ cyc' = [c EXCEPT !.pc = "idle", !.result = "ok", !.cause = "none"]
        /\ data' = newdata
        /\ heap' = [r \in fresh \cup HeldPayloads(ents) |->
                        IF r \in fresh THEN c.all_device_data[r[2]] ELSE heap[r]]
        /\ ents' = handle_coordinator_update(ents, newdata)
        /\ last_update_success' = TRUE
        /\ phase' = IF phase = "refresh" THEN "platform" ELSE phase

\* Mutant of CycleLoop: the requests for device k and every later device are
\* issued together.
CycleLoopFanOut(c, k) ==
    IF k > Len(devices) THEN CyclePublish([c EXCEPT !.k = k])
    ELSE LET g == get_device_data(master, devices[k]) IN
         IF g.exc # "none"
             THEN LET h == ExceptEheimDigitalError(g.exc) IN
                  CycleFail([c EXCEPT !.k = k, !.marked = h.marked], h.result, g.exc)
         ELSE /\ cyc' = [c EXCEPT !.pc = "updating", !.k = k,
                                  !.sent = @ \o [i \in 1..(Len(devices) - k + 1) |->
                                      get_device_data(master, devices[k + i - 1]).req]]
              /\ UNCHANGED <<phase, data, heap, ents, last_update_success>>

\* The loop of _async_update_data at device number k, up to the next await.
CycleLoop(c, k) ==
    IF k > Len(devices) THEN CyclePublish([c EXCEPT !.k = k])
    ELSE LET g == get_device_data(master, devices[k]) IN
         IF g.exc # "none"
             THEN LET h == ExceptEheimDigitalError(g.exc) IN
                  CycleFail([c EXCEPT !.k = k, !.marked = h.marked], h.result, g.exc)
         ELSE /\ cyc' = [c EXCEPT !.pc = "updating", !.k = k, !.sent = Append(@, g.req)]
              /\ UNCHANGED <<phase, data, heap, ents, last_update_success>>

\* A cycle starts: the first refresh of setup (number 0), the refresh that
\* async_add_entities(switches, True) makes the first new entity request
\* before it is added (number 1), or one the scheduler starts (2 and up).
async_update_data ==
    /\ cyc.pc = "idle"
    /\ \/ phase = "refresh"
       \/ phase = "adding" /\ Len(ents) > 0 /\ cyc.n = 0
       \/ phase = "run" /\ cyc.n < MaxCycles + 1
    /\ CycleLoop([cyc EXCEPT !.n = IF phase = "refresh" THEN 0
                                   ELSE IF phase = "adding" THEN 1
                                   ELSE IF @ < 2 THEN 2 ELSE @ + 1,
                             !.all_device_data = EmptyMap,
                             !.result = "none", !.cause = "none", !.marked = FALSE,
                             !.sent = <<>>], 1)
    /\ UNCHANGED <<flow, master, fd, devices, cmd, io>>

\* The cycle resumes with the response for device number cyc.k.
async_update_data_resume(resp) ==
    /\ cyc.pc = "updating"
    /\ LET r == send_request(resp)
           device == devices[cyc.k]
       IN  IF r.exc = "none"
               THEN CycleLoop([cyc EXCEPT !.all_device_data = Put(@, device.mac, r.val)],
                              cyc.k + 1)
           ELSE LET h == ExceptEheimDigitalError(r.exc) IN
                CycleFail([cyc EXCEPT !.marked = h.marked], h.result, r.exc)
    /\ UNCHANGED <<flow, master, fd, devices, cmd, io>>

(* ------------------------------------------------------------------ *)
(* switch.py                                                          *)
(* ------------------------------------------------------------------ *)

\* EheimSwitch(coordinator, description, device)
EheimSwitch(description, device) ==
    [description |-> description, device |-> device,
     switch_data |-> data[device.mac], attr_available |-> TRUE, added |-> FALSE]

RECURSIVE Switches(_, _)
\* The switches list async_setup_entry builds, from device d, description j on.
Switches(d, j) ==
    IF d > Len(devices) THEN <<>>
    ELSE IF j > Len(SWITCH_DESCRIPTIONS) THEN Switches(d + 1, 1)
    ELSE IF SWITCH_DESCRIPTIONS[j].key \in SWITCH_SENSOR_GROUPS(devices[d].device_group)
        THEN <<EheimSwitch(SWITCH_DESCRIPTIONS[j], devices[d])>> \o Switches(d, j + 1)
    ELSE Switches(d, j + 1)

\* async_setup_entry of the switch platform, after the first refresh: the
\* entities are built and handed to async_add_entities(switches, True),
\* which has nothing to add for an empty list.
async_setup_entry ==
    /\ phase = "platform"
    /\ ents' = Switches(1, 1)
    /\ phase' = IF Switches(1, 1) = <<>> THEN "run" ELSE "adding"
    /\ UNCHANGED <<flow, master, fd, devices, data, heap, last_update_success, cyc, cmd, io>>

\* Entity e is added: it now listens to the coordinator and can be
\* commanded.  With update_before_add each entity is updated first: the
\* first one requests the refresh (cycle number 1) and is added when that
\* has ended; for the others the request returns at once, a refresh being
\* under way, so they can be added while it is in flight.
async_added_to_hass(e) ==
    /\ phase = "adding"
    /\ ~ents[e].added
    /\ cyc.n = 1
    /\ e = 1 => cyc.pc = "idle"
    /\ ents' = [ents EXCEPT ![e].added = TRUE]
    /\ phase' = IF \A x \in 1..Len(ents) : x = e \/ ents[x].added THEN "run" ELSE phase
    /\ UNCHANGED <<flow, master, fd, devices, data, heap, last_update_success, cyc, cmd, io>>

\* is_on
is_on(e) == Truthy(DictGet(heap[ents[e].switch_data], ents[e].description.state_key))

\* self._switch_data[state_key] = bit of the entity of call c, _switch_data
\* being read after the await
PatchSwitchData(c, bit) ==
    [heap EXCEPT ![ents[c.ent].switch_data] =
        JObj(Put(@.v, ents[c.ent].description.state_key, JNum(bit)))]

\* A command of an added entity up to its await: the POST of set_state_fn
\* is sent.  Nothing makes a command wait for another one: the call joins
\* those in flight.
CommandStart(e, op, state) ==
    /\ phase \in {"adding", "run"}
    /\ ents[e].added
    /\ cmd.n < MaxCommands
    /\ cmd' = [cmd EXCEPT
                  !.n = @ + 1,
                  !.calls = @ (+) SetToBag(
                      {[op |-> op, ent |-> e,
                        sent |-> <<set_state_fn(ents[e].description, master,
                                                ents[e].device, state)>>]})]
    /\ UNCHANGED <<phase, flow, master, fd, devices, data, heap, last_update_success, cyc, ents, io>>

async_turn_on(e) == CommandStart(e, "on", TRUE)

async_turn_off(e) == CommandStart(e, "off", FALSE)

\* Call c has ended: it leaves the calls in flight and cmd records how it
\* ended (what the command raised, the exception that left the method,
\* whether async_write_ha_state was called, and for a command that returned
\* the number of the cycle that was in flight at that moment, 0 for none).
CommandEnd(c, raised, exc, wrote) ==
    [cmd EXCEPT !.calls = @ (-) SetToBag({c}), !.op = c.op, !.ent = c.ent,
                !.during = IF cyc.pc = "updating" /\ raised = "none" THEN cyc.n ELSE 0,
                !.sent = c.sent, !.raised = raised, !.exc = exc, !.wrote = wrote]

\* Mutant of TurnOnResume: a command that returned makes the entity available
\* again.
TurnOnResumeRestores(c, r) ==
    IF r.exc = "none"
        THEN /\ heap' = PatchSwitchData(c, 1)
             /\ cmd' = CommandEnd(c, "none", "none", TRUE)
             /\ ents' = [ents EXCEPT ![c.ent].attr_available = TRUE]
        ELSE /\ cmd' = CommandEnd(c, r.exc, r.exc, FALSE)
             /\ UNCHANGED <<heap, ents>>

\* Mutant of TurnOnResume: the bit is set whatever the command did.
TurnOnResumeAlways(c, r) ==
    /\ heap' = PatchSwitchData(c, 1)
    /\ cmd' = CommandEnd(c, r.exc, "none", TRUE)
    /\ ents' = ents

\* async_turn_on resumes: r is what set_state_fn returned or raised.
TurnOnResume(c, r) ==
    IF r.exc = "none"
        THEN /\ heap' = PatchSwitchData(c, 1)
             /\ cmd' = CommandEnd(c, "none", "none", TRUE)
             /\ ents' = ents
        ELSE /\ cmd' = CommandEnd(c, r.exc, r.exc, FALSE)
             /\ UNCHANGED <<heap, ents>>

\* Mutant of TurnOffResume: the state key is set to off before the outcome of
\* the command is known.
TurnOffResumePatchFirst(c, r) ==
    IF r.exc = "none"
        THEN /\ heap' = PatchSwitchData(c, 0)
             /\ cmd' = CommandEnd(c, "none", "none", TRUE)
             /\ ents' = ents
    ELSE IF r.exc \in DomainErrors
        THEN /\ ents' = [ents EXCEPT ![c.ent].attr_available = FALSE]
             /\ cmd' = CommandEnd(c, r.exc, "none", TRUE)
             /\ heap' = PatchSwitchData(c, 0)
    ELSE /\ cmd' = CommandEnd(c, r.exc, r.exc, FALSE)
         /\ heap' = PatchSwitchData(c, 0)
         /\ ents' = ents

\* Mutant of TurnOffResume: a failed command is handled as turn-on does.
TurnOffResumeNoHandler(c, r) ==
    IF r.exc = "none"
        THEN /\ heap' = PatchSwitchData(c, 0)
             /\ cmd' = CommandEnd(c, "none", "none", TRUE)
             /\ ents' = ents
        ELSE /\ cmd' = CommandEnd(c, r.exc, r.exc, FALSE)
             /\ UNCHANGED <<heap, ents>>

\* async_turn_off resumes: r is what set_state_fn returned or raised.
TurnOffResume(c, r) ==
    IF r.exc = "none"
        THEN /\ heap' = PatchSwitchData(c, 0)
             /\ cmd' = CommandEnd(c, "none", "none", TRUE)
             /\ ents' = ents
    ELSE IF r.exc \in DomainErrors
        THEN /\ ents' = [ents EXCEPT ![c.ent].attr_available = FALSE]
             /\ cmd' = CommandEnd(c, r.exc, "none", TRUE)
             /\ heap' = heap
    ELSE /\ cmd' = CommandEnd(c, r.exc, r.exc, FALSE)
         /\ UNCHANGED <<heap, ents>>

\* A command in flight resumes with the hub's response to its POST.
command_resume(c, resp) ==
    /\ BagIn(c, cmd.calls)
    /\ IF c.op = "on"
           THEN TurnOnResume(c, set_state_outcome(send_request(resp)))
           ELSE TurnOffResume(c, set_state_outcome(send_request(resp)))
    /\ UNCHANGED <<phase, flow, master, fd, devices, data, last_update_success, cyc, io>>

(* ------------------------------------------------------------------ *)
(* Specification                                                      *)
(* ------------------------------------------------------------------ *)

\* The responses the hub can give to the request in flight.
PendingUserdataResponses ==
    IF fd.pc = "userdata" THEN UserdataResponses(fd.ips[fd.i]) ELSE {}

PendingStatusResponses ==
    IF cyc.pc = "updating"
        THEN StatusResponses(DEVICE_ENDPOINTS[devices[cyc.k].version])
        ELSE {}

Next ==
    \/ \E u \in Hosts \cup {NoInput} : async_step_user(u)
    \/ \E resp \in PendingFlowResponses : async_step_user_resume(resp)
    \/ async_step_user_close
    \/ fetch_devices
    \/ \E resp \in DevListResponses : fetch_devices_list(resp)
    \/ \E resp \in PendingUserdataResponses : fetch_devices_userdata(resp)
    \/ setup_coordinator
    \/ async_update_data
    \/ \E resp \in PendingStatusResponses : async_update_data_resume(resp)
    \/ async_setup_entry
    \/ \E e \in 1..Len(ents) : async_added_to_hass(e)
    \/ \E e \in 1..Len(ents) : async_turn_on(e)
    \/ \E e \in 1..Len(ents) : async_turn_off(e)
    \/ \E c \in BagToSet(cmd.calls), resp \in CommandResponses : command_resume(c, resp)

Spec == Init /\ [][Next]_vars


(* ------------------------------------------------------------------ *)
(* The client on its own: one call, one response                      *)
(* ------------------------------------------------------------------ *)

ClientHosts == Hosts \cup DeviceIPs

ClientEndpoints == {"devicelist", "userdata", "professionel5e", "phcontrol/active"}

\* Every response of the hub, in time and late.
ClientResponses ==
    LET intime == FlowResponses \cup DevListResponses \cup CommandResponses
                      \cup StatusResponses("professionel5e")
                      \cup Ok200(ContentTypes,
                                 {StatusBody("filterActive", b) : b \in NumLexemes})
    IN  intime \cup {Late(r) : r \in intime}

\* The devices of the hub, as fetch_devices builds them.
HubDevices == {EheimDevice(json_loads(UserdataBody(ip)).val, ip) : ip \in DeviceIPs}

OtherVars ==
    <<phase, flow, master, fd, devices, data, heap, last_update_success, cyc, ents, cmd>>

\* The call awaits the response: nothing received, nothing returned yet.
NoResponse == [elapsed |-> 0, err |-> "none", status |-> 0, ctype |-> "", body |-> <<>>]

\* get(host, endpoint) up to the await of _send_request: the request is sent.
client_get(host, endpoint) ==
    /\ phase = "client"
    /\ io.op = "none"
    /\ io' = [op |-> "get", pc |-> "sent", sent |-> <<get(host, endpoint, JNull)>>,
              resp |-> NoResponse, result |-> Return(JNull)]
    /\ UNCHANGED OtherVars

\* post(host, endpoint, data) up to the await of _send_request.
client_post(host, endpoint, body) ==
    /\ phase = "client"
    /\ io.op = "none"
    /\ io' = [op |-> "post", pc |-> "sent", sent |-> <<post(host, endpoint, body)>>,
              resp |-> NoResponse, result |-> Return(JNull)]
    /\ UNCHANGED OtherVars

\* set_filter_state(device, state) / set_phcontrol_state(device, state) of
\* a client for master_host_ip, up to the await of the POST.
client_set_state(fn, master_host_ip, device, state) ==
    /\ phase = "client"
    /\ io.op = "none"
    /\ io' = [op |-> fn, pc |-> "sent", master_host_ip |-> master_host_ip,
              device |-> device, state |-> state,
              sent |-> <<IF fn = "set_filter_state"
                             THEN set_filter_state(master_host_ip, device, state)
                             ELSE set_phcontrol_state(master_host_ip, device, state)>>,
              resp |-> NoResponse, result |-> Return(JNull)]
    /\ UNCHANGED OtherVars

\* The call in flight resumes with the hub's response: _send_request maps it
\* to a value or an exception, which the caller returns or lets pass.
client_resume(resp) ==
    /\ phase = "client"
    /\ io.op # "none"
    /\ io.pc = "sent"
    /\ io' = [io EXCEPT !.pc = "done", !.resp = resp,
                        !.result = IF io.op \in {"get", "post"}
                                       THEN send_request(resp)
                                       ELSE set_state_outcome(send_request(resp))]
    /\ UNCHANGED OtherVars

\* The responses the hub can give to the call in flight.
PendingClientResponses ==
    IF io.op = "none" THEN {}
    ELSE IF io.op \in {"get", "post"} THEN ClientResponses
    ELSE CommandResponses

\* The call of the client has returned or raised.
ClientDone == io.op # "none" /\ io.pc = "done"

ClientInit == phase = "client" /\ InitRest

ClientNext ==
    \/ \E host \in ClientHosts, endpoint \in ClientEndpoints : client_get(host, endpoint)
    \/ \E host \in Hosts, device \in HubDevices, state \in BOOLEAN :
           client_post(host, "phcontrol/active", ActiveBody(device, state))
    \/ \E fn \in {"set_filter_state", "set_phcontrol_state"}, host \in Hosts,
          device \in HubDevices, state \in BOOLEAN :
           client_set_state(fn, host, device, state)
    \/ \E resp \in PendingClientResponses : client_resume(resp)

ClientSpec == ClientInit /\ [][ClientNext]_vars


(* ------------------------------------------------------------------ *)
(* Claims                                                             *)
(* ------------------------------------------------------------------ *)

\* A get or post that got a response with a status, in time.
GotStatus ==
    /\ ClientDone /\ io.op \in {"get", "post"}
    /\ ~SessionTimesOut(io.resp) /\ io.resp.err = "none"

\* C1: for every request of get or post, a 404 yields NotFound, a 401 or 403
\* yields AuthError, and any other non-2xx status yields ConnectionError.
C1_StatusDecidesOutcome ==
    GotStatus =>
        /\ io.resp.status = 404 => io.result.exc = "EheimDigitalNotFound"
        /\ io.resp.status \in {401, 403} => io.result.exc = "EheimDigitalAuthError"
        /\ (io.resp.status \notin 200..299 /\ io.resp.status \notin {401, 403, 404})
               => io.result.exc = "EheimDigitalConnectionError"

\* A cycle step in which the fetch for device cyc.k raises a domain error.
CycleFetchFails ==
    cyc.pc = "updating" /\ cyc'.pc = "idle" /\ cyc'.cause \in DomainErrors

\* C2: a poll cycle in which the fetch for some device raises a domain error
\* leaves the published snapshot as it was (no entry fetched in this cycle
\* becomes visible), clears last_update_success and raises UpdateFailed.
C2_FailedCycleKeepsSnapshot ==
    [][CycleFetchFails =>
          /\ data' = data
          /\ heap' = heap
          /\ last_update_success' = FALSE
          /\ cyc'.result = "UpdateFailed"]_vars

\* C2 witness: a scheduled cycle failed at its second device, the first one
\* fetched: the snapshot is still the one of the cycle before.
C2_Witness ==
    /\ cyc.pc = "idle" /\ cyc.result = "UpdateFailed" /\ cyc.k = 2 /\ cyc.n >= 2
    /\ Len(cyc.sent) = 2 /\ ~last_update_success
    /\ \A m \in DOMAIN data : data[m] = <<1, m>> /\ data[m] \in DOMAIN heap

\* A step in which a call of async_turn_on or async_turn_off ends; cmd' then
\* tells which call and how.
CommandEnds == cmd'.n = cmd.n /\ cmd'.calls # cmd.calls

\* A step in which async_turn_on resumes from its command.
TurnOnCompletes == CommandEnds /\ cmd'.op = "on"

\* The state key of entity e in its _switch_data, after the step.
StateKeyAfter(e) ==
    DictGet(heap'[ents'[e].switch_data], ents'[e].description.state_key)

\* C3 as stated: turning a switch on sets the local state key to on and
\* signals a state change, whether the command succeeded or raised.
C3_TurnOnAlwaysSets ==
    [][TurnOnCompletes => StateKeyAfter(cmd'.ent) = JNum(1) /\ cmd'.wrote]_vars

\* C3 amended: turning a switch on sets the local state key to on and signals
\* a state change exactly when the command returned; when the command raised,
\* the error leaves async_turn_on, the payloads and the entities stay as they
\* were and no state change is signalled.
C3_TurnOnSetsOnSuccess ==
    [][TurnOnCompletes =>
          IF cmd'.raised = "none"
              THEN StateKeyAfter(cmd'.ent) = JNum(1) /\ cmd'.wrote /\ cmd'.exc = "none"
              ELSE heap' = heap /\ ents' = ents /\ ~cmd'.wrote /\ cmd'.exc = cmd'.raised]_vars

\* C3 witness: a turn-on whose command raised left the switch off and
\* unsignalled.
C3_Witness ==
    /\ cmd.calls = EmptyBag /\ cmd.op = "on" /\ cmd.raised \in DomainErrors
    /\ ~cmd.wrote /\ ~is_on(cmd.ent)

\* A step in which async_turn_off resumes from its command.
TurnOffCompletes == CommandEnds /\ cmd'.op = "off"

\* C4 as stated: turning a switch off marks the entity unavailable if and
\* only if the command raised an error, and signals a state change either way.
C4_TurnOffMarksOnAnyError ==
    [][TurnOffCompletes =>
          /\ cmd'.raised # "none" => ~ents'[cmd'.ent].attr_available
          /\ cmd'.raised = "none" =>
                 ents'[cmd'.ent].attr_available = ents[cmd'.ent].attr_available
          /\ cmd'.wrote]_vars

\* C4 amended: turning a switch off marks the entity unavailable if and only
\* if the command raised a domain error (EheimDigitalError), and a state
\* change is signalled when the command returned and when it raised a domain
\* error; any other error leaves async_turn_off with the entity unmarked and
\* nothing signalled.
C4_TurnOffMarksOnDomainError ==
    [][TurnOffCompletes =>
          /\ cmd'.raised \in DomainErrors =>
                 ~ents'[cmd'.ent].attr_available /\ cmd'.wrote /\ cmd'.exc = "none"
          /\ cmd'.raised = "none" =>
                 /\ ents'[cmd'.ent].attr_available = ents[cmd'.ent].attr_available
                 /\ cmd'.wrote /\ cmd'.exc = "none"
          /\ cmd'.raised \notin DomainErrors \cup {"none"} =>
                 /\ ents'[cmd'.ent].attr_available = ents[cmd'.ent].attr_available
                 /\ ~cmd'.wrote /\ cmd'.exc = cmd'.raised]_vars

\* C4 witness: a turn-off whose command raised a domain error marked the
\* entity unavailable and signalled the change.
C4_Witness ==
    /\ cmd.calls = EmptyBag /\ cmd.op = "off" /\ cmd.raised \in DomainErrors
    /\ cmd.wrote /\ ~ents[cmd.ent].attr_available

\* C5: fetch_devices issues one userdata GET per address of clientIPList and
\* returns the devices in the order of clientIPList, each with the address it
\* was fetched from; when a fetch fails the error leaves fetch_devices,
\* nothing is returned and no later fetch is issued.
C5_FetchDevicesAllOrNothing ==
    /\ fd.pc = "returned" =>
           /\ Len(fd.devices) = Len(fd.ips)
           /\ \A i \in 1..Len(fd.ips) :
                  /\ fd.devices[i].ip = fd.ips[i]
                  /\ fd.devices[i].mac = UserdataMac(fd.ips[i])
           /\ fd.sent = <<get(master, "devicelist", JNull)>>
                            \o [i \in 1..Len(fd.ips) |-> get(fd.ips[i], "userdata", JNull)]
    /\ fd.pc = "raised" =>
           /\ fd.exc # "none"
           /\ Len(fd.sent) = 1 + fd.i
           /\ devices = <<>>

\* C5 witness: the fetch for the second of two addresses failed after the
\* first device was built; three requests were sent and nothing was returned.
C5_Witness ==
    /\ fd.pc = "raised" /\ fd.i = 2 /\ Len(fd.ips) = 2 /\ Len(fd.devices) = 1
    /\ fd.exc \in DomainErrors /\ Len(fd.sent) = 3 /\ devices = <<>>

\* The devicelist document names at least one device.
DeviceListNonEmpty(doc) ==
    /\ doc.k = "obj"
    /\ "clientIPList" \in DOMAIN doc.v
    /\ doc.v["clientIPList"].k = "arr"
    /\ Len(doc.v["clientIPList"].v) > 0

\* C6: setup validation fails if the device list is empty: a configuration
\* entry is created only when the fetch succeeded and the list was non-empty
\* (stated for a devicelist that was decoded as a JSON document).
C6_EntryOnlyWithDevices ==
    (flow.result = "create_entry" /\ flow.devices.k = "obj") =>
        DeviceListNonEmpty(flow.devices)

\* C7: a JSON body returned with status 200 decodes to the same document
\* under application/json and under text/json; the result is the raw text
\* only when the content type is neither.
C7_JsonTypesDecodeAlike ==
    (GotStatus /\ io.resp.status = 200 /\ json_loads(io.resp.body).exc = "none") =>
        /\ io.resp.ctype \in JsonTypes =>
               /\ io.result = Return(json_loads(io.resp.body).val)
               /\ \A c \in JsonTypes : send_request([io.resp EXCEPT !.ctype = c]) = io.result
        /\ io.result.val.k = "text" => io.resp.ctype \notin JsonTypes

\* C7 witness: {"filterActive": 1} labelled text/json decoded to a mapping
\* with filterActive = 1.
C7_Witness ==
    /\ GotStatus /\ io.resp.status = 200 /\ io.resp.ctype = "text/json"
    /\ io.resp.body = StatusBody("filterActive", "1")
    /\ io.result.exc = "none" /\ io.result.val.k = "obj"
    /\ io.result.val.v["filterActive"] = JNum(1)

\* C8: get_device_data sends one GET to the master host, to the endpoint of
\* the device's version, with the device's mac as the routing parameter; for
\* a version that is not in the table it fails with a lookup error, which is
\* no domain error, and sends nothing.
C8_DeviceDataViaMaster ==
    /\ cyc.pc = "updating" =>
           LET d == devices[cyc.k] IN
           /\ d.version \in DOMAIN DEVICE_ENDPOINTS
           /\ Len(cyc.sent) = cyc.k
           /\ cyc.sent[cyc.k] =
                  [method |-> "GET",
                   url |-> <<"http://", master, "/api/", DEVICE_ENDPOINTS[d.version]>>,
                   json |-> JNull,
                   params |-> JObj([to |-> JStr(d.mac)])]
    /\ (cyc.pc = "idle" /\ cyc.result \notin {"none", "ok"}) =>
           /\ cyc.result = "KeyError" <=> devices[cyc.k].version \notin DOMAIN DEVICE_ENDPOINTS
           /\ cyc.result = "KeyError" => Len(cyc.sent) = cyc.k - 1
    /\ "KeyError" \notin DomainErrors

\* C8 witness: the cycle fetched the first device through the master, which
\* is not that device's address, and stopped at a second device of unknown
\* version without sending a request for it.
C8_Witness ==
    /\ cyc.pc = "idle" /\ cyc.result = "KeyError" /\ cyc.k = 2 /\ Len(cyc.sent) = 1
    /\ cyc.sent[1].url[2] = master /\ master # devices[1].ip

\* C9: a request that exceeds the session's total timeout fails with
\* ConnectionTimeout; a connection failure of the network layer fails with
\* ConnectionError.
C9_TimeoutAndConnectionErrors ==
    (ClientDone /\ io.op \in {"get", "post"}) =>
        /\ SessionTimesOut(io.resp) => io.result.exc = "EheimDigitalConnectionTimeout"
        /\ (~SessionTimesOut(io.resp)
                /\ io.resp.err \in {"ClientConnectorError", "ConnectionResetError"})
               => io.result.exc = "EheimDigitalConnectionError"

\* C9 witness: a GET that took longer than DEFAULT_TIMEOUT raised
\* ConnectionTimeout.
C9_Witness ==
    /\ ClientDone /\ io.op = "get" /\ io.resp.elapsed > DEFAULT_TIMEOUT
    /\ io.result.exc = "EheimDigitalConnectionTimeout"

\* C10: set_filter_state and set_phcontrol_state send one POST to the master
\* host, to professionel5e/active and phcontrol/active, with the device's mac
\* and active = 1 for true, 0 for false; they succeed exactly when the POST
\* did not raise, and an error of the POST reaches the caller unchanged.
C10_CommandPosts ==
    io.op \in {"set_filter_state", "set_phcontrol_state"} =>
        /\ io.sent =
               << [method |-> "POST",
                   url |-> <<"http://", io.master_host_ip, "/api/",
                             IF io.op = "set_filter_state" THEN "professionel5e/active"
                             ELSE "phcontrol/active">>,
                   json |-> JObj([to |-> JStr(io.device.mac),
                                  active |-> JNum(IF io.state THEN 1 ELSE 0)]),
                   params |-> JNull] >>
        /\ ClientDone =>
               /\ io.result.exc = send_request(io.resp).exc
               /\ io.result.val = JNull

\* C10 witness: set_filter_state(device, False) posted active = 0 and the
\* error of the POST reached the caller.
C10_Witness ==
    /\ ClientDone /\ io.op = "set_filter_state" /\ ~io.state
    /\ io.sent[1].json.v["active"] = JNum(0)
    /\ io.sent[1].url[2] # io.device.ip
    /\ io.result.exc = "EheimDigitalConnectionError"

\* The macs of the first n known devices.
MacsUpTo(n) == {devices[i].mac : i \in 1..n}

\* The requests of the current cycle that have no outcome yet; a cycle
\* that ended in an error got one for each request but the payloads are
\* dropped.
InFlight ==
    IF cyc.pc = "idle" /\ cyc.result \notin {"none", "ok"}
        THEN Len(cyc.sent) - (IF cyc.cause = "KeyError" THEN cyc.k - 1 ELSE cyc.k)
        ELSE Len(cyc.sent) - Cardinality(DOMAIN cyc.all_device_data)

\* C11: within one poll cycle the device data requests are issued one after
\* another in the order of the device list: request number i is the one for
\* device number i, the request for device k is issued only when every
\* earlier device has its payload, at most one request is in flight, and the
\* failing request is the last one the cycle issued.
C11_RequestsOneAfterAnother ==
    /\ \A i \in 1..Len(cyc.sent) :
           /\ i <= Len(devices)
           /\ cyc.sent[i] = get_device_data(master, devices[i]).req
    /\ InFlight \in {0, 1}
    /\ cyc.pc = "updating" =>
           /\ Len(cyc.sent) = cyc.k
           /\ DOMAIN cyc.all_device_data = MacsUpTo(cyc.k - 1)
           /\ InFlight = 1
    /\ cyc.pc = "idle" => InFlight = 0
    /\ (cyc.pc = "idle" /\ cyc.result \notin {"none", "ok"}) =>
           Len(cyc.sent) = IF cyc.cause = "KeyError" THEN cyc.k - 1 ELSE cyc.k

\* C11 witness: with two known devices, the request for the first one failed
\* and the cycle ended having issued that request only.
C11_Witness ==
    /\ Len(devices) = 2 /\ cyc.pc = "idle" /\ cyc.result = "UpdateFailed"
    /\ cyc.k = 1 /\ Len(cyc.sent) = 1 /\ cyc.all_device_data = EmptyMap

\* C12: the coordinator catches only errors of the domain error base class:
\* a cycle that a domain error ended has marked itself failed (line 53) and
\* raised UpdateFailed, while a cycle that any other error ended (the KeyError
\* of an unknown version) raised that error unconverted and did not pass
\* line 53.
C12_OnlyDomainErrorsConverted ==
    (cyc.pc = "idle" /\ cyc.cause # "none") =>
        IF cyc.cause \in DomainErrors
            THEN cyc.result = "UpdateFailed" /\ cyc.marked /\ ~last_update_success
            ELSE cyc.result = cyc.cause /\ cyc.result # "UpdateFailed" /\ ~cyc.marked

\* C12 witness: the lookup of an unknown version ended a cycle with its
\* KeyError, line 53 not executed.
C12_Witness ==
    /\ cyc.pc = "idle" /\ cyc.cause = "KeyError" /\ cyc.result = "KeyError"
    /\ ~cyc.marked /\ devices[cyc.k].version \notin DOMAIN DEVICE_ENDPOINTS

\* A step in which a poll cycle returns its snapshot.
CycleSucceeds == cyc' # cyc /\ cyc'.pc = "idle" /\ cyc'.result = "ok"

\* C13: a successful poll cycle publishes a fresh snapshot whose keys are
\* exactly the macs of the known devices, each mapped to the payload this
\* cycle fetched for it, no payload object of the previous snapshot being
\* carried over; no step of a cycle changes the known device list or sends a
\* request of fetch_devices.
C13_FreshSnapshotPerCycle ==
    [][/\ CycleSucceeds =>
             /\ DOMAIN data' = MacsUpTo(Len(devices))
             /\ DOMAIN cyc'.all_device_data = DOMAIN data'
             /\ \A m \in DOMAIN data' :
                    /\ heap'[data'[m]] = cyc'.all_device_data[m]
                    /\ data'[m] \notin DOMAIN heap
             /\ last_update_success'
       /\ cyc' # cyc => devices' = devices /\ fd' = fd]_vars

\* C13 witness: a scheduled cycle over two devices succeeded and published
\* its own two payloads.
C13_Witness ==
    /\ cyc.pc = "idle" /\ cyc.result = "ok" /\ cyc.n >= 2 /\ Len(devices) = 2
    /\ DOMAIN data = MacsUpTo(2)
    /\ \A m \in DOMAIN data : data[m] = <<cyc.n, m>> /\ heap[data[m]] = cyc.all_device_data[m]

\* A step in which a command returns and patches the entity's payload.
CommandWrites == CommandEnds /\ cmd'.raised = "none"

\* is_on of entity e after the step.
IsOnAfter(e) == Truthy(StateKeyAfter(e))

\* What the cycle that just published fetched for the state key of entity e.
FetchedState(e) ==
    DictGet(cyc'.all_device_data[ents[e].device.mac], ents[e].description.state_key)

\* A step in which a poll cycle ends in an error.
CycleFails == cyc.pc = "updating" /\ cyc'.pc = "idle" /\ cyc'.result # "ok"

\* C14: however a command and a poll cycle interleave, the switch state is
\* the value of the write applied last: a command that returns sets it to
\* the command's value, also when a cycle published while the command was in
\* flight; a cycle whose snapshot is applied to the entity (the entity is
\* added and listens) sets it to the value that cycle fetched, also when a
\* command returned after the fetch; a cycle that fails applies no snapshot,
\* so the value of a command that returned while it was in flight stays;
\* a step that ends neither a command nor a cycle changes no switch state.
C14_LastWriteWins ==
    [][/\ CommandWrites => IsOnAfter(cmd'.ent) = (cmd'.op = "on")
       /\ CycleSucceeds =>
             \A e \in 1..Len(ents) :
                 IsOnAfter(e) = IF ents[e].added THEN Truthy(FetchedState(e)) ELSE is_on(e)
       /\ (CycleFails /\ cmd.during # 0 /\ cmd.during = cyc.n) =>
             IsOnAfter(cmd.ent) = (cmd.op = "on")
       /\ (~CommandWrites /\ ~CycleSucceeds /\ ~CycleFails /\ Len(ents) = Len(ents')) =>
             \A e \in 1..Len(ents) : IsOnAfter(e) = is_on(e)]_vars

\* The payloads after a patch of the state key of entity e to bit.
PatchedHeap(e, bit) ==
    [heap EXCEPT ![ents[e].switch_data] =
        JObj([key \in DOMAIN @.v \cup {ents[e].description.state_key} |->
                 IF key = ents[e].description.state_key THEN JNum(bit) ELSE @.v[key]])]

\* C15: the snapshot is replaced wholesale by each successful poll cycle and
\* is otherwise changed only by the patch of one key after a successful
\* command: after every successful cycle each entity holds the entry this
\* cycle published for its device mac and its switch state is the truthiness
\* of the state key this cycle fetched; any other step leaves the snapshot
\* alone or, a command having returned, sets the one state key of the
\* command's entity.
C15_SnapshotReplacedOrPatched ==
    [][IF CycleSucceeds
           THEN /\ \A m \in DOMAIN data' : data'[m] \notin DOMAIN heap
                /\ \A e \in 1..Len(ents) :
                       /\ ents'[e].switch_data = data'[ents[e].device.mac]
                       /\ heap'[ents'[e].switch_data] =
                              cyc'.all_device_data[ents[e].device.mac]
                       /\ IsOnAfter(e) = Truthy(FetchedState(e))
           ELSE /\ data' = data
                /\ \/ heap' = heap
                   \/ /\ CommandWrites
                      /\ heap' = PatchedHeap(cmd'.ent, IF cmd'.op = "on" THEN 1 ELSE 0)]_vars

\* The (mac, capability) pairs of the switch entities.
SwitchPairs == {<<ents[e].device.mac, ents[e].description.key>> : e \in 1..Len(ents)}

\* The pairs of the known devices of a group with a capability.
GroupPairs(group, key) ==
    {<<devices[i].mac, key>> : i \in {j \in 1..Len(devices) : devices[j].device_group = group}}

\* C16: at setup a switch entity is created for a (device, capability) pair
\* if and only if the device's group maps to the capability: a filter device
\* gets the filter switch only, a ph_control device the pH switch only, a
\* device of any other group none; each pair gets one entity, and there are
\* no entities before the platform is set up.
C16_SwitchPerCapability ==
    IF phase \in {"adding", "run"}
        THEN /\ SwitchPairs = GroupPairs("filter", "filter_is_active")
                                  \cup GroupPairs("ph_control", "ph_control_is_active")
             /\ Len(ents) = Cardinality(SwitchPairs)
        ELSE ents = <<>>

\* C16 witness: of two devices, a heater and a filter or pH control, only the
\* second one got a switch.
C16_Witness ==
    /\ phase \in {"adding", "run"} /\ Len(devices) = 2 /\ Len(ents) = 1
    /\ \E i \in 1..2 : devices[i].device_group = "heater"
    /\ ents[1].device.device_group \in {"filter", "ph_control"}

\* C17: every client session opened by setup validation is closed when
\* validation finishes, on every path: the devicelist fetch succeeded, it
\* raised an error, or no devices were found.
C17_ValidationClosesSession ==
    (flow.pc = "idle" /\ flow.user_input # NoInput /\ flow.result # "none") =>
        flow.session = "closed"

\* A step in which async_turn_off is called and sends its command.
TurnOffStarts ==
    /\ cmd'.n = cmd.n + 1
    /\ \E c \in BagToSet(cmd'.calls) :
           c.op = "off" /\ CopiesIn(c, cmd'.calls) = CopiesIn(c, cmd.calls) + 1

\* C18: a turn-off whose command raised a domain error leaves the entity's
\* snapshot entry as it was, the state key keeping its value; the state key
\* is set to off only when the command returned without error, not when the
\* command is sent and not when it raised.
C18_TurnOffPatchesOnlyOnSuccess ==
    [][/\ TurnOffStarts => heap' = heap /\ data' = data /\ ents' = ents
       /\ TurnOffCompletes =>
             IF cmd'.raised = "none"
                 THEN /\ heap' = PatchedHeap(cmd'.ent, 0)
                      /\ StateKeyAfter(cmd'.ent) = JNum(0)
                 ELSE /\ heap' = heap /\ data' = data
                      /\ ents'[cmd'.ent].switch_data = ents[cmd'.ent].switch_data
                      /\ IsOnAfter(cmd'.ent) = is_on(cmd'.ent)]_vars

\* C18 witness: a turn-off of a switch that is on raised a domain error: the
\* entity is marked unavailable and the switch is still on.
C18_Witness ==
    /\ cmd.calls = EmptyBag /\ cmd.op = "off" /\ cmd.raised \in DomainErrors
    /\ ~ents[cmd.ent].attr_available /\ is_on(cmd.ent)

\* C19: once a failed turn-off has marked an entity unavailable, no later
\* step (a turn-on or a turn-off that returns, a poll cycle that publishes,
\* or any other) sets the entity's availability flag back: the entity stays
\* in the list and its flag stays cleared.
C19_UnavailableIsPermanent ==
    [][\A e \in 1..Len(ents) :
          ~ents[e].attr_available =>
              /\ Len(ents') = Len(ents)
              /\ ~ents'[e].attr_available]_vars

\* C19 witness: the second command of an entity that a failed turn-off had
\* marked unavailable, a turn-on, returned and set the switch on; the flag
\* is still cleared.
C19_Witness ==
    /\ cmd.calls = EmptyBag /\ cmd.n = 2 /\ cmd.op = "on" /\ cmd.raised = "none" /\ cmd.wrote
    /\ is_on(cmd.ent) /\ ~ents[cmd.ent].attr_available

====
